---- MODULE Spec2Model ----
(***************************************************************************)
(* Generation Session Controller of frontend/src/App.tsx.                  *)
(*                                                                         *)
(* The React component keeps the session in useState hooks and one useRef  *)
(* (wsRef).  Every handler is modelled as an operator from the session     *)
(* record to the session record; an action applies one handler to the      *)
(* current state under the condition under which the UI renders (and       *)
(* enables) the control that invokes it.  A handler that awaits            *)
(* takeScreenshot() is split at the await: the values its closure captured *)
(* wait in `pending` until the screenshot promise resolves.                *)
(*                                                                         *)
(* generateCode / generateInstruction (./generateCode) and                 *)
(* calculateMistakesNum (./lib/utils) are imported by App.tsx; they are    *)
(* modelled from the specification's Channel Adapter (4.1, 5) and          *)
(* Instruction Diagnostics (4.4) sections.                                 *)
(***************************************************************************)
EXTENDS Integers, Sequences, FiniteSets, TLC

VARIABLES appState, generatedCode, referenceImages, executionConsole,
          updateInstruction, history, shouldIncludeResultImage, mistakesNum,
          wsRef, chans, pending, settings

vars == <<appState, generatedCode, referenceImages, executionConsole,
          updateInstruction, history, shouldIncludeResultImage, mistakesNum,
          wsRef, chans, pending, settings>>

\* ------------------------------------------------------------------ bounds
\* longest text (generatedCode, updateInstruction) a stream or the user builds
MaxLen == 1
\* connections that are live (open or closing) at the same time
MaxChan == 2
\* handlers suspended at `await takeScreenshot()` at the same time
MaxPending == 1
\* update requests whose entry fits the ledger
MaxHist == 1
\* lines kept in executionConsole
MaxLog == 1

\* ------------------------------------------------------------------ values
\* characters of streamed text; "m" marks one flagged mistake
Chars == {"m"}
\* texts the server sends as a full replacement
ReplaceTexts == {<<"m">>}
\* texts the user types into the instruction box or the code editor
TypedTexts == {<<>>, <<"u">>}
LogLines == {"l"}
ImageLists == {<<>>, <<"img1">>}

\* ./types AppState
INITIAL == "INITIAL"
CODING == "CODING"
CODE_READY == "CODE_READY"
INSTRUCTION_GENERATING == "INSTRUCTION_GENERATING"
AppStates == {INITIAL, CODING, CODE_READY, INSTRUCTION_GENERATING}

\* referenceImages[0] as JavaScript evaluates it
FirstImage(imgs) == IF Len(imgs) > 0 THEN imgs[1] ELSE "undefined"

\* the session as one record, so that handlers compose as in the source
Cur ==
  [appState |-> appState, generatedCode |-> generatedCode,
   referenceImages |-> referenceImages, executionConsole |-> executionConsole,
   updateInstruction |-> updateInstruction, history |-> history,
   shouldIncludeResultImage |-> shouldIncludeResultImage,
   mistakesNum |-> mistakesNum, wsRef |-> wsRef, chans |-> chans,
   pending |-> pending, settings |-> settings]

Apply(n) ==
  /\ appState' = n.appState
  /\ generatedCode' = n.generatedCode
  /\ referenceImages' = n.referenceImages
  /\ executionConsole' = n.executionConsole
  /\ updateInstruction' = n.updateInstruction
  /\ history' = n.history
  /\ shouldIncludeResultImage' = n.shouldIncludeResultImage
  /\ mistakesNum' = n.mistakesNum
  /\ wsRef' = n.wsRef
  /\ chans' = n.chans
  /\ pending' = n.pending
  /\ settings' = n.settings

\* --------------------------------------------------------- channel adapter
\* a connection that was never opened, or has delivered its last event
NoChannel ==
  [status |-> "closed", callbacks |-> "none", generationType |-> "none",
   image |-> "none", request |-> [generationType |-> "none"]]

ChanIds == 1..MaxChan

\* the handle a new connection gets
NewHandle(s) ==
  CHOOSE c \in ChanIds :
    /\ s.chans[c].status = "closed"
    /\ \A d \in ChanIds : s.chans[d].status = "closed" => c <= d

\* open(request, onEvent): a new connection; the handle is left in wsRef
openChannel(s, callbacks, params) ==
  LET c == NewHandle(s)
  IN  [s EXCEPT !.chans[c] = [status |-> "open", callbacks |-> callbacks,
                              generationType |-> params.generationType,
                              image |-> params.image,
                              request |-> params],
                !.wsRef = c]

\* cancel(handle): advisory and idempotent; a closed handle is left alone
cancel(s, h) ==
  IF h # 0 /\ s.chans[h].status = "open"
  THEN [s EXCEPT !.chans[h].status = "cancelling"]
  ELSE s

generateCode(s, params) == openChannel(s, "code", params)

generateInstruction(s, params) == openChannel(s, "instruction", params)

RECURSIVE calculateMistakesNum(_)
calculateMistakesNum(instruction) ==
  IF instruction = <<>> THEN 0
  ELSE (IF Head(instruction) = "m" THEN 1 ELSE 0)
       + calculateMistakesNum(Tail(instruction))

\* ---------------------------------------------------------------- settings
\* the default value of the persisted settings
DefaultSettings ==
  [openAiApiKey |-> "null", screenshotOneApiKey |-> "null",
   isImageGenerationEnabled |-> "true", editorTheme |-> "COBALT",
   isTermOfServiceAccepted |-> "false"]

\* settings as they may come back from the persisted store: the default, a
\* stored API key, and a stored object that carries a key the request
\* parameters use as well
SettingsValues ==
  { DefaultSettings,
    [DefaultSettings EXCEPT !.openAiApiKey = "sk"],
    [k \in DOMAIN DefaultSettings \cup {"image"} |->
       IF k = "image" THEN "settingsImg" ELSE DefaultSettings[k]] }

\* { ...settings, ...params }: the parameters win
mergeParams_paramsWin(params, stngs) ==
  [k \in DOMAIN params \cup DOMAIN stngs |->
     IF k \in DOMAIN params THEN params[k] ELSE stngs[k]]

\* { ...params, ...settings }
mergeParams(params, stngs) ==
  [k \in DOMAIN params \cup DOMAIN stngs |->
     IF k \in DOMAIN stngs THEN stngs[k] ELSE params[k]]

\* ---------------------------------------------------------------- handlers
reset(s) ==
  [s EXCEPT !.appState = INITIAL, !.generatedCode = <<>>,
            !.referenceImages = <<>>, !.executionConsole = <<>>,
            !.history = <<>>]

\* stop() that also reports the stop in the console
stop_logging(s) ==
  [cancel(s, s.wsRef) EXCEPT !.appState = CODE_READY,
                             !.executionConsole = Append(@, "l")]

stop(s) == [cancel(s, s.wsRef) EXCEPT !.appState = CODE_READY]

doGenerateCode(s, params) ==
  generateCode([s EXCEPT !.executionConsole = <<>>, !.appState = CODING],
               mergeParams(params, s.settings))

\* doGenerateInstruction that keeps the count of the previous instruction
doGenerateInstruction_staleCount(s, params) ==
  generateInstruction([s EXCEPT !.appState = INSTRUCTION_GENERATING,
                                !.updateInstruction = <<>>],
                      mergeParams(params, s.settings))

doGenerateInstruction(s, params) ==
  generateInstruction([s EXCEPT !.appState = INSTRUCTION_GENERATING,
                                !.updateInstruction = <<>>,
                                !.mistakesNum = 0],
                      mergeParams(params, s.settings))

\* the callbacks doGenerateCode hands to generateCode
codeOnChange(s, token) == [s EXCEPT !.generatedCode = @ \o <<token>>]
codeOnSetCode(s, code) == [s EXCEPT !.generatedCode = code]
onStatusUpdate(s, line) == [s EXCEPT !.executionConsole = Append(@, line)]
codeOnComplete(s) == [s EXCEPT !.appState = CODE_READY]

\* the callbacks doGenerateInstruction hands to generateInstruction
instructionOnChange(s, token) == [s EXCEPT !.updateInstruction = @ \o <<token>>]
instructionOnSetCode(s, code) == [s EXCEPT !.updateInstruction = code]
\* onComplete that returns to CODE_READY without counting
instructionOnComplete_noCount(s) == [s EXCEPT !.appState = CODE_READY]

instructionOnComplete(s) ==
  [s EXCEPT !.appState = CODE_READY,
            !.mistakesNum = calculateMistakesNum(s.updateInstruction)]

\* doCreate that starts the generation without looking at the list
doCreate_unchecked(s, images) ==
  doGenerateCode([s EXCEPT !.referenceImages = images],
                 [generationType |-> "create", image |-> FirstImage(images)])

doCreate(s, images) ==
  LET s1 == [s EXCEPT !.referenceImages = images]
  IN  IF Len(images) > 0
      THEN doGenerateCode(s1, [generationType |-> "create",
                               image |-> FirstImage(images)])
      ELSE s1

\* doUpdate up to the branch: the ledger value its closure computes
updatedHistory(s) == s.history \o <<s.generatedCode, s.updateInstruction>>

\* doUpdate that leaves the instruction in the box until the new code arrives
doUpdateRest_keepInstruction(s, image, updHistory) ==
  [doGenerateCode(s, [generationType |-> "update", image |-> image])
     EXCEPT !.history = updHistory, !.generatedCode = <<>>]

\* doUpdate from the doGenerateCode call on; image and updHistory are the
\* values of the closure that was invoked
doUpdateRest(s, image, updHistory) ==
  [doGenerateCode(s, [generationType |-> "update", image |-> image])
     EXCEPT !.history = updHistory, !.generatedCode = <<>>,
            !.updateInstruction = <<>>]

\* instructionGenerate after the await
instructionGenerateRest(s, image) ==
  doGenerateInstruction(s, [generationType |-> "instruction", image |-> image])

\* a handler parked at `await takeScreenshot()`
suspend(s, op, image, updHistory) ==
  [s EXCEPT !.pending = Append(@, [op |-> op, image |-> image,
                                   history |-> updHistory])]

\* iframe: whether takeScreenshot finds the preview document; without it the
\* promise is already resolved and the handler resumes before any other event
doUpdate(s, iframe) ==
  IF s.shouldIncludeResultImage /\ iframe
  THEN suspend(s, "update", FirstImage(s.referenceImages), updatedHistory(s))
  ELSE doUpdateRest(s, FirstImage(s.referenceImages), updatedHistory(s))

instructionGenerate(s, iframe) ==
  IF iframe
  THEN suspend(s, "instruction", FirstImage(s.referenceImages), <<>>)
  ELSE instructionGenerateRest(s, FirstImage(s.referenceImages))

RemoveAt(q, i) == SubSeq(q, 1, i - 1) \o SubSeq(q, i + 1, Len(q))

resume(s, i) ==
  LET p == s.pending[i]
      s1 == [s EXCEPT !.pending = RemoveAt(@, i)]
  IN  IF p.op = "update"
      THEN doUpdateRest(s1, p.image, p.history)
      ELSE instructionGenerateRest(s1, p.image)

\* -------------------------------------------------------------------- Init
InitSession ==
  /\ appState = INITIAL
  /\ generatedCode = <<>>
  /\ referenceImages = <<>>
  /\ executionConsole = <<>>
  /\ updateInstruction = <<>>
  /\ history = <<>>
  /\ shouldIncludeResultImage = FALSE
  /\ mistakesNum = 0
  /\ wsRef = 0
  /\ chans = [c \in ChanIds |-> NoChannel]
  /\ pending = <<>>

Init == InitSession /\ settings = DefaultSettings

\* ----------------------------------------------------- room left in bounds
CanOpen == \E c \in ChanIds : chans[c].status = "closed"
CanSuspend == Len(pending) < MaxPending
CanAppend == Len(history) < 2 * MaxHist

\* a handler that awaits needs a free place in pending, one that opens a
\* connection a free handle
Room(suspends) == IF suspends THEN CanSuspend ELSE CanOpen

\* ------------------------------------------------------------ user actions
\* ImageUpload / UrlInputSection, rendered in INITIAL
Create ==
  /\ appState = INITIAL
  /\ \E images \in ImageLists :
       /\ Len(images) > 0 => CanOpen
       /\ Apply(doCreate(Cur, images))

\* Stop button, rendered in CODING
ClickStop ==
  /\ appState = CODING
  /\ Apply(stop(Cur))

\* Reset button, rendered in CODE_READY and INSTRUCTION_GENERATING, disabled
\* in the latter
ClickReset ==
  /\ appState = CODE_READY
  /\ Apply(reset(Cur))

\* Update button, rendered with the Reset button
ClickUpdate ==
  /\ appState = CODE_READY
  /\ CanAppend
  /\ \E iframe \in BOOLEAN :
       /\ Room(shouldIncludeResultImage /\ iframe)
       /\ Apply(doUpdate(Cur, iframe))

\* Generate Instruction button, rendered with the Reset button
ClickGenerateInstruction ==
  /\ appState = CODE_READY
  /\ \E iframe \in BOOLEAN :
       /\ Room(iframe)
       /\ Apply(instructionGenerate(Cur, iframe))

\* the screenshot promise of a suspended handler resolves
ScreenshotResolved ==
  /\ CanOpen
  /\ \E i \in 1..Len(pending) : Apply(resume(Cur, i))

\* Textarea onChange
TypeInstruction ==
  /\ appState = CODE_READY
  /\ \E v \in TypedTexts : Apply([Cur EXCEPT !.updateInstruction = v])

\* Switch onCheckedChange
ToggleIncludeResultImage ==
  /\ appState = CODE_READY
  /\ Apply([Cur EXCEPT !.shouldIncludeResultImage = ~@])

\* CodeMirror onCodeChange, rendered in every phase but INITIAL
EditCode ==
  /\ appState # INITIAL
  /\ \E v \in TypedTexts : Apply([Cur EXCEPT !.generatedCode = v])

\* ----------------------------------------------------------- stream events
\* a connection delivers while open, and what was in flight after a cancel
Delivers(c) == chans[c].status \in {"open", "cancelling"}

onToken(s, c, token) ==
  IF s.chans[c].callbacks = "code" THEN codeOnChange(s, token)
  ELSE instructionOnChange(s, token)

onReplace(s, c, code) ==
  IF s.chans[c].callbacks = "code" THEN codeOnSetCode(s, code)
  ELSE instructionOnSetCode(s, code)

onDone(s, c) ==
  IF s.chans[c].callbacks = "code" THEN codeOnComplete(s)
  ELSE instructionOnComplete(s)

Target(c) ==
  IF chans[c].callbacks = "code" THEN generatedCode ELSE updateInstruction

Token(c) ==
  /\ Delivers(c)
  /\ Len(Target(c)) < MaxLen
  /\ \E token \in Chars : Apply(onToken(Cur, c, token))

Replace(c) ==
  /\ Delivers(c)
  /\ \E code \in ReplaceTexts : Apply(onReplace(Cur, c, code))

Log(c) ==
  /\ Delivers(c)
  /\ Len(executionConsole) < MaxLog
  /\ \E line \in LogLines : Apply(onStatusUpdate(Cur, line))

Done(c) ==
  /\ chans[c].status = "open"
  /\ Apply([onDone(Cur, c) EXCEPT !.chans[c] = NoChannel])

Cancelled(c) ==
  /\ chans[c].status = "cancelling"
  /\ Apply([Cur EXCEPT !.chans[c] = NoChannel])

StreamEvent ==
  \E c \in ChanIds :
    Token(c) \/ Replace(c) \/ Log(c) \/ Done(c) \/ Cancelled(c)

Next ==
  \/ Create
  \/ ClickStop
  \/ ClickReset
  \/ ClickUpdate
  \/ ClickGenerateInstruction
  \/ ScreenshotResolved
  \/ TypeInstruction
  \/ ToggleIncludeResultImage
  \/ EditCode
  \/ StreamEvent

Spec == Init /\ [][Next]_vars

\* ------------------------------------------------- the merge of parameters
\* The session started with each value the persisted settings may have, and
\* driven through every handler that issues a request; the streams deliver
\* no text, they only end.
InitMerge == InitSession /\ settings \in SettingsValues

StreamEnds == \E c \in ChanIds : Done(c) \/ Cancelled(c)

NextMerge ==
  \/ Create
  \/ ClickStop
  \/ ClickReset
  \/ ClickUpdate
  \/ ClickGenerateInstruction
  \/ ScreenshotResolved
  \/ ToggleIncludeResultImage
  \/ StreamEnds

SpecMerge == InitMerge /\ [][NextMerge]_vars

\* ================================================================== claims
OpenChannels == {c \in ChanIds : chans[c].status = "open"}

\* C1: in every reachable state at most one channel is open for the session.
C1_AtMostOneOpenChannel == Cardinality(OpenChannels) <= 1

\* a channel whose events the session should no longer take: it is not the
\* one wsRef holds, or stop() has cancelled it
Stale(c) == c # wsRef \/ chans[c].status # "open"

\* C2: a stream event (Token, Replace, Log, Done) delivered by a channel that
\* is no longer the session's active channel changes none of appState,
\* generatedCode, updateInstruction, executionConsole and mistakesNum.
C2_StaleEventsDiscarded ==
  [][\A c \in ChanIds :
       (Stale(c) /\ (Token(c) \/ Replace(c) \/ Log(c) \/ Done(c)))
         => UNCHANGED <<appState, generatedCode, updateInstruction,
                        executionConsole, mistakesNum>>]_vars

InitialFields ==
  /\ appState = INITIAL
  /\ generatedCode = <<>>
  /\ referenceImages = <<>>
  /\ executionConsole = <<>>
  /\ history = <<>>
  /\ updateInstruction = <<>>
  /\ mistakesNum = 0

\* C3: after reset() every session field equals its initial value: appState
\* INITIAL, generatedCode, referenceImages, executionConsole, history and
\* updateInstruction empty, mistakesNum 0.
C3_ResetYieldsInitial == [][ClickReset => InitialFields']_vars

\* C4: an operation invoked in a phase where it is not legal leaves the
\* session unchanged: stop() in INITIAL or CODE_READY, doCreate outside
\* INITIAL, doUpdate and instructionGenerate outside CODE_READY.
C4_IllegalOperationIsNoOp ==
  /\ appState \in {INITIAL, CODE_READY} => stop(Cur) = Cur
  /\ appState # INITIAL =>
       \A images \in ImageLists : doCreate(Cur, images) = Cur
  /\ appState # CODE_READY =>
       \A iframe \in BOOLEAN :
         /\ doUpdate(Cur, iframe) = Cur
         /\ instructionGenerate(Cur, iframe) = Cur

\* this step opens the channel of an update request, i.e. doUpdate takes
\* effect, at the click or when its screenshot await resolves
UpdateIssued ==
  \E c \in ChanIds :
    /\ chans[c].status = "closed"
    /\ chans'[c].status = "open"
    /\ chans'[c].generationType = "update"

\* C5: every execution of doUpdate makes history grow by exactly the entry
\* (generatedCode, updateInstruction) the session held immediately before.
C5_UpdateAppendsCurrentPair ==
  [][UpdateIssued => history' = history \o <<generatedCode, updateInstruction>>]_vars

IsPrefix(p, q) == Len(p) <= Len(q) /\ SubSeq(q, 1, Len(p)) = p

\* C6: between two resets history is append-only: every step other than a
\* reset leaves the old history a prefix of the new one.
C6_HistoryAppendOnly == [][ClickReset \/ IsPrefix(history, history')]_vars

\* the stream stop() has cancelled, while nothing was started after the stop
Stopped(c) ==
  /\ appState = CODE_READY
  /\ c = wsRef
  /\ chans[c].status = "cancelling"
  /\ chans[c].callbacks = "code"

\* C7: stop() in CODING moves appState to CODE_READY and keeps generatedCode,
\* and afterwards no event of the stopped stream changes generatedCode.
C7_StopPreservesBuffer ==
  [][/\ ClickStop => appState' = CODE_READY /\ generatedCode' = generatedCode
     /\ \A c \in ChanIds :
          (Stopped(c) /\ (Token(c) \/ Replace(c) \/ Log(c) \/ Cancelled(c)))
            => generatedCode' = generatedCode]_vars

\* C8: stop() is idempotent: in the state a stop() leaves, a second stop()
\* changes nothing.
C8_StopIdempotent == [][ClickStop => (stop(Cur) = Cur)']_vars

\* a state a stop() of a running generation has left
C8_Witness ==
  /\ appState = CODE_READY
  /\ wsRef # 0
  /\ chans[wsRef].status = "cancelling"

\* the generation create started is running and its channel is the active one
CreateRunning(c) ==
  /\ appState = CODING
  /\ c = wsRef
  /\ chans[c].status = "open"
  /\ chans[c].generationType = "create"

\* C9: in a generation started by create from INITIAL, generatedCode is the
\* last Replace text (empty if none) followed by the Tokens received after
\* it, and Done sets CODE_READY and keeps generatedCode.  Stated step by
\* step: create starts from the empty text, a Token appends, a Replace
\* overwrites, Done keeps.
C9_CreateBuildsFromStream ==
  [][/\ (Create /\ appState' = CODING) => generatedCode' = <<>>
     /\ \A c \in ChanIds : CreateRunning(c) =>
          /\ Token(c) => \E t \in Chars : generatedCode' = generatedCode \o <<t>>
          /\ Replace(c) => generatedCode' \in ReplaceTexts
          /\ Done(c) => appState' = CODE_READY /\ generatedCode' = generatedCode]_vars

\* C10: the step in which doUpdate issues its request moves appState to
\* CODING and empties generatedCode and updateInstruction together; it is
\* the step that opens the request's channel, so no event of that channel
\* comes before it.
C10_UpdateClearsAtOnce ==
  [][UpdateIssued =>
       /\ appState' = CODING
       /\ generatedCode' = <<>>
       /\ updateInstruction' = <<>>]_vars

\* an update that waited for its screenshot has taken effect
C10_Witness ==
  /\ appState = CODING
  /\ shouldIncludeResultImage
  /\ history # <<>>
  /\ chans[wsRef].generationType = "update"
  /\ chans[wsRef].status = "open"

\* C11: doCreate with an empty image list in INITIAL is a no-op: appState
\* stays INITIAL, no channel is opened and no field changes.
C11_EmptyCreateIsNoOp == appState = INITIAL => doCreate(Cur, <<>>) = Cur

\* INITIAL after a reset, where an upload may deliver an empty list
C11_Witness == appState = INITIAL /\ wsRef # 0

\* a stream callback of a code channel runs
CodeCallback ==
  \E c \in ChanIds :
    chans[c].callbacks = "code" /\ (Token(c) \/ Replace(c))

\* C12: generatedCode changes only in a step taken in CODING or by a user
\* edit in CODE_READY: no stream callback changes it in INITIAL,
\* INSTRUCTION_GENERATING or CODE_READY, and no editor change in INITIAL or
\* INSTRUCTION_GENERATING.
C12_CodeMutatedOnlyWhenGenerating ==
  [][/\ (CodeCallback /\ appState # CODING) => generatedCode' = generatedCode
     /\ (EditCode /\ appState \in {INITIAL, INSTRUCTION_GENERATING})
          => generatedCode' = generatedCode]_vars

\* a stream callback of an instruction channel runs
InstructionCallback ==
  \E c \in ChanIds :
    chans[c].callbacks = "instruction" /\ (Token(c) \/ Replace(c))

\* C13: updateInstruction changes only by a stream event in
\* INSTRUCTION_GENERATING or by typing in CODE_READY: no instruction-stream
\* callback changes it in another phase, and typing never changes it in
\* INSTRUCTION_GENERATING.
C13_InstructionMutatedOnlyWhenRefining ==
  [][/\ (InstructionCallback /\ appState # INSTRUCTION_GENERATING)
          => updateInstruction' = updateInstruction
     /\ (TypeInstruction /\ appState = INSTRUCTION_GENERATING)
          => updateInstruction' = updateInstruction]_vars

\* C14: whenever appState is CODING or INSTRUCTION_GENERATING the Stop
\* control is available, and taking it moves appState to CODE_READY.
C14_StopAlwaysAvailable ==
  appState \in {CODING, INSTRUCTION_GENERATING} =>
    ENABLED (ClickStop /\ appState' = CODE_READY)

\* this step opens the channel of an instruction request
InstructionIssued ==
  \E c \in ChanIds :
    /\ chans[c].status = "closed"
    /\ chans'[c].status = "open"
    /\ chans'[c].generationType = "instruction"

\* C15: entering INSTRUCTION_GENERATING empties updateInstruction and sets
\* mistakesNum to 0, and mistakesNum is 0 in every state with appState
\* INSTRUCTION_GENERATING.
C15_RefiningShowsNoCount ==
  [][/\ (InstructionIssued \/ (appState # INSTRUCTION_GENERATING
                                /\ appState' = INSTRUCTION_GENERATING))
          => (updateInstruction' = <<>> /\ mistakesNum' = 0)
     /\ appState' = INSTRUCTION_GENERATING => mistakesNum' = 0]_vars

\* an instruction request is running on the active channel
C15_Witness ==
  /\ appState = INSTRUCTION_GENERATING
  /\ chans[wsRef].status = "open"
  /\ chans[wsRef].generationType = "instruction"
  /\ mistakesNum = 0

C17_ResetCancelsChannel == [][ClickReset => OpenChannels' = {}]_vars

\* this step opens channel c for an update or an instruction request
RefinementOpened(c) ==
  /\ chans[c].status = "closed"
  /\ chans'[c].status = "open"
  /\ chans'[c].generationType \in {"update", "instruction"}

\* C18: whenever doUpdate or doGenerateInstruction opens a channel,
\* referenceImages is non-empty (a create came before, since the last
\* reset) and the request's image is referenceImages[0] of the session.
C18_RefinementHasReferenceImage ==
  [][\A c \in ChanIds :
       RefinementOpened(c) =>
         /\ Len(referenceImages') > 0
         /\ chans'[c].image = FirstImage(referenceImages')]_vars

\* the session as reset() leaves it, as far as C20 speaks of it
AfterReset ==
  /\ appState = INITIAL
  /\ history = <<>>
  /\ referenceImages = <<>>

\* C20: once reset() has run, the session stays in INITIAL with empty
\* history and referenceImages until the next doCreate with a non-empty
\* list, and until then no channel is opened.
C20_ResetHolds ==
  [][(AfterReset /\ ~(Create /\ referenceImages' # <<>>)) =>
       /\ AfterReset'
       /\ \A c \in ChanIds :
            chans[c].status = "closed" => chans'[c].status = "closed"]_vars

\* this step opens channel c
Opened(c) == chans[c].status = "closed" /\ chans'[c].status = "open"

\* the parameters the handler that runs in this step supplies: doCreate in
\* INITIAL, a resumed handler when pending shrinks, else doUpdate or
\* instructionGenerate by the phase they enter
CallerParams ==
  IF Len(pending') < Len(pending)
  THEN {[generationType |-> pending[i].op, image |-> pending[i].image] :
          i \in {j \in 1..Len(pending) : pending' = RemoveAt(pending, j)}}
  ELSE IF appState = INITIAL
  THEN {[generationType |-> "create", image |-> FirstImage(referenceImages')]}
  ELSE IF appState' = CODING
  THEN {[generationType |-> "update", image |-> FirstImage(referenceImages)]}
  ELSE {[generationType |-> "instruction",
         image |-> FirstImage(referenceImages)]}

\* C19: in every request sent, a key present in the parameters and in the
\* settings has the settings value, and a key present in only one of them
\* has the value it has there.
C19_SettingsOverrideParams ==
  [][\A c \in ChanIds :
       Opened(c) =>
         \E p \in CallerParams :
           LET r == chans'[c].request
           IN  /\ DOMAIN r = DOMAIN p \cup DOMAIN settings
               /\ \A k \in DOMAIN p \cap DOMAIN settings : r[k] = settings[k]
               /\ \A k \in DOMAIN settings \ DOMAIN p : r[k] = settings[k]
               /\ \A k \in DOMAIN p \ DOMAIN settings : r[k] = p[k]]_vars

\* a request was sent whose image is the one of the settings, not the
\* session's reference image
C19_Witness ==
  \E c \in ChanIds :
    /\ chans[c].status = "open"
    /\ "image" \in DOMAIN settings
    /\ chans[c].request.image = settings.image
    /\ referenceImages = <<"img1">>
====
